---- MODULE Spec2Model ----
(***************************************************************************)
(* The site-builder HTTP servers: the JSON-RPC ("MCP") dispatcher of       *)
(* POST /mcp, the REST endpoint POST /api/createWebsite, the site          *)
(* generator and the mocked deployment.                                    *)
(*                                                                         *)
(* Three server files exist in the repository:                             *)
(*   "part_000"  src/unnamed/part_000  /mcp (fetch by url) + REST          *)
(*   "part_001"  src/unnamed/part_001  /mcp (fetch by id)  + REST          *)
(*   "backend"   src/backend/index.js  REST only                           *)
(* They share src/api/services.js (generateSite, deployToVercel).          *)
(*                                                                         *)
(* Text is a sequence of atoms.  Text that a client supplies and that the  *)
(* code inspects character by character (a site name) is given one         *)
(* character per atom; a literal of the source, or a protocol word, is one *)
(* atom.  Concatenation is \o.                                             *)
(***************************************************************************)
EXTENDS Integers, Sequences, FiniteSets

VARIABLES
    variant,         \* which server file is running
    asyncRejection,  \* what the installed express does with a rejected async handler
    env,             \* process.env.VERCEL_TOKEN
    alive,           \* whether the server process is running
    errorLogged,     \* whether console.error has reported an exception
    timers,          \* the slots whose deploy timer is pending, oldest first
    reqs             \* the requests in flight, one per connection slot

vars == <<variant, asyncRejection, env, alive, errorLogged, timers, reqs>>

\* ------------------------------------------------------------------ bounds

\* Connections open at once in the concurrent specification.
MaxReq == 2

\* Longest site name drawn character by character in the deploy specification.
MaxLen == 3

\* -------------------------------------------------------- JavaScript values

Range(s) == {s[i] : i \in 1..Len(s)}

\* A JSON value as the handler sees it after body-parser: k is its type, v its
\* text (a string's characters, a number's digits, a boolean's word); for an
\* object v lists its own keys.
Undefined == [k |-> "undefined", v |-> <<>>]
Null == [k |-> "null", v |-> <<>>]
False == [k |-> "boolean", v |-> <<"false">>]
True == [k |-> "boolean", v |-> <<"true">>]
Num(digits) == [k |-> "number", v |-> digits]
Str(atoms) == [k |-> "string", v |-> atoms]
Obj(keys) == [k |-> "object", v |-> keys]

Zero == Num(<<"0">>)
Seven == Num(<<"7">>)
EmptyStr == Str(<<>>)
\* {} and {"toString": 1}: the second has no callable toString and its inherited
\* valueOf returns the object itself, so converting it to a string throws.
PlainObj == Obj(<<>>)
NoStringObj == Obj(<<"toString">>)

\* !x in JavaScript is ~Truthy(x).
Truthy(x) ==
    CASE x.k = "undefined" -> FALSE
      [] x.k = "null" -> FALSE
      [] x.k = "boolean" -> x.v = <<"true">>
      [] x.k = "number" -> x.v # <<"0">>
      [] x.k = "string" -> x.v # <<>>
      [] OTHER -> TRUE

\* a || b
Or(a, b) == IF Truthy(a) THEN a ELSE b

\* Whether `${x}` (ToString, ToPropertyKey) throws a TypeError.
ToStringThrows(x) == x.k = "object" /\ "toString" \in Range(x.v)

\* `${x}` when it does not throw.
ToString(x) ==
    CASE x.k = "undefined" -> <<"undefined">>
      [] x.k = "null" -> <<"null">>
      [] x.k = "object" -> <<"[object Object]">>
      [] OTHER -> x.v

\* x === 'word' for a string literal of the source.
Is(x, word) == x.k = "string" /\ x.v = <<word>>

\* x.toLowerCase is a function only on strings.
HasToLowerCase(x) == x.k = "string"

\* One atom lower-cased.
LowerAtom(c) ==
    CASE c = "A" -> "a"
      [] c = "M" -> "m"
      [] c = "S" -> "s"
      [] c = "DARK" -> "dark"
      [] c = "Modern" -> "modern"
      [] c = "Portfolio" -> "portfolio"
      [] c = "Business" -> "business"
      [] c = "Landing" -> "landing"
      [] c = "Personal" -> "personal"
      [] c = "Blog" -> "blog"
      [] c = "Professional" -> "professional"
      [] c = "Simple" -> "simple"
      [] OTHER -> c

\* String.prototype.toLowerCase
toLowerCase(s) == [i \in 1..Len(s) |-> LowerAtom(s[i])]

\* The characters the regular expression class \s matches.
IsSpace(c) == c \in {" ", "\t", "\n"}

RECURSIVE SkipSpaces(_)
SkipSpaces(s) ==
    IF s # <<>> /\ IsSpace(Head(s)) THEN SkipSpaces(Tail(s)) ELSE s

\* s.replace(/\s/g, '-'): every whitespace character becomes a hyphen.
RECURSIVE ReplaceEachSpace(_)
ReplaceEachSpace(s) ==
    IF s = <<>> THEN <<>>
    ELSE IF IsSpace(Head(s)) THEN <<"-">> \o ReplaceEachSpace(Tail(s))
    ELSE <<Head(s)>> \o ReplaceEachSpace(Tail(s))

\* s.replace(/\s+/g, '-'): scanning from the left, the longest run of whitespace
\* at the current position becomes one hyphen.
RECURSIVE ReplaceSpaceRuns(_)
ReplaceSpaceRuns(s) ==
    IF s = <<>> THEN <<>>
    ELSE IF IsSpace(Head(s)) THEN <<"-">> \o ReplaceSpaceRuns(SkipSpaces(Tail(s)))
    ELSE <<Head(s)>> \o ReplaceSpaceRuns(Tail(s))

\* hay.includes(needle)
Includes(hay, needle) ==
    \E i \in 0..Len(hay) :
        /\ i + Len(needle) <= Len(hay)
        /\ \A j \in 1..Len(needle) : hay[i + j] = needle[j]

\* ------------------------------------------------------- src/api/services.js

\* generateSite throws when `${site_name}` does; theme is only compared.
generateSiteThrows(site_name, theme) == ToStringThrows(site_name)

\* The document generateSite returns: { html }.
generateSite(site_name, theme) ==
    <<"<title>">> \o ToString(site_name) \o <<"</title>", "background: ">>
    \o <<IF Is(theme, "dark") THEN "#111" ELSE "#fafafa">>
    \o <<"color: ">>
    \o <<IF Is(theme, "dark") THEN "#fff" ELSE "#111">>
    \o <<"<h1>Welcome to ">> \o ToString(site_name) \o <<"</h1>">>

\* After the delay deployToVercel throws when name has no toLowerCase.
deployToVercelThrows(files, name, domain, token) == ~HasToLowerCase(name)

\* A deployment whose regular expression lacks the +.
deployEachSpace(files, name, domain, token) ==
    <<"https://">> \o ReplaceEachSpace(toLowerCase(name.v)) \o <<".vercel.app">>

\* mockUrl, the url of what deployToVercel returns.
deployToVercel(files, name, domain, token) ==
    <<"https://">> \o ReplaceSpaceRuns(toLowerCase(name.v)) \o <<".vercel.app">>

\* ------------------------------------------------------------- responses

\* JSON-RPC error codes used by the dispatcher.
MethodNotFound == -32601
InvalidParams == -32602
InternalError == -32603

\* No response written yet.
NoResponse ==
    [status |-> 0, kind |-> "none", id |-> Undefined, code |-> 0,
     text |-> <<>>, error |-> <<>>]

\* res.status(200).end()
EmptyOk == [NoResponse EXCEPT !.status = 200, !.kind = "empty"]

\* The id both helpers write: id || null.
ResponseId(id) == Or(id, Null)

\* res.json({ jsonrpc: "2.0", id: id || null, result }); text is the result's
\* content text (or, for the protocol methods, the result's keys).
jsonRpcResponse(id, text) ==
    [NoResponse EXCEPT !.status = 200, !.kind = "result",
                       !.id = ResponseId(id), !.text = text]

\* res.json({ jsonrpc: "2.0", id: id || null, error: { code, message } })
jsonRpcError(id, code, message) ==
    [NoResponse EXCEPT !.status = 200, !.kind = "error", !.id = ResponseId(id),
                       !.code = code, !.text = message]

\* res.status(400).json({ success: false, message })
RestBadRequest ==
    [NoResponse EXCEPT !.status = 400, !.kind = "rest-fail",
                       !.text = <<"Missing site_name or theme">>]

\* res.status(500).json({ success: false, message, error: err.message })
RestFailure(message, error) ==
    [NoResponse EXCEPT !.status = 500, !.kind = "rest-fail",
                       !.text = message, !.error = error]

\* res.json({ success: true, siteUrl })
RestSuccess(siteUrl) ==
    [NoResponse EXCEPT !.status = 200, !.kind = "rest-ok", !.text = siteUrl]

\* res.status(404).json({ success: false, message: "Endpoint not found" })
NotFound ==
    [NoResponse EXCEPT !.status = 404, !.kind = "rest-fail",
                       !.text = <<"Endpoint not found">>]

\* express 5 hands a rejected handler to its default error handler.
DefaultErrorPage == [NoResponse EXCEPT !.status = 500, !.kind = "html"]

\* err.message of the TypeErrors and the ReferenceError the handlers can meet.
NotAFunction(what) == <<what, " is not a function">>
CannotConvert == <<"Cannot convert object to primitive value">>
NotDefined(what) == <<what, " is not defined">>

\* ---------------------------------------------------------------- servers

McpVariants == {"part_000", "part_001"}
Variants == McpVariants \cup {"backend"}

\* Whether generateSite and deployToVercel are bound at module scope, where the
\* REST handler looks them up: part_001 imports them only inside its createWebsite
\* tool.
ImportsServices(v) == v \in {"part_000", "backend"}

\* Whether the createWebsite tool awaits import('./services.js') first.
LazyImport(v) == v = "part_001"

\* mcpTools, by name.
mcpTools == <<"search", "fetch", "createWebsite">>

\* The templates array of the search tool.
SearchTemplates(v) ==
    IF v = "part_000"
    THEN << [id |-> <<>>, name |-> <<"Modern", " ", "Portfolio">>, theme |-> <<"dark">>,
             description |-> <<"A", " ", "sleek", " ", "dark", "-themed portfolio site">>],
            [id |-> <<>>, name |-> <<"Business", " ", "Landing">>, theme |-> <<"light">>,
             description |-> <<"Professional", " ", "light", " ", "business", " ", "page">>],
            [id |-> <<>>, name |-> <<"Personal", " ", "Blog">>, theme |-> <<"light">>,
             description |-> <<"Simple", " ", "blog", " ", "template">>] >>
    ELSE << [id |-> <<"template-1">>, name |-> <<"Modern", " ", "Portfolio">>,
             theme |-> <<"dark">>,
             description |-> <<"A", " ", "sleek", " ", "dark",
                               "-themed portfolio site with modern animations">>],
            [id |-> <<"template-2">>, name |-> <<"Business", " ", "Landing">>,
             theme |-> <<"light">>,
             description |-> <<"Professional", " ", "light", " ", "business", " ",
                               "page with call-to-action sections">>],
            [id |-> <<"template-3">>, name |-> <<"Personal", " ", "Blog">>,
             theme |-> <<"light">>,
             description |-> <<"Simple", " ", "and clean ", "blog", " ",
                               "template for personal content">>] >>

\* The filter callback of the search tool.
Matches(t, query) ==
    \/ Includes(toLowerCase(t.name), toLowerCase(query.v))
    \/ Includes(toLowerCase(t.description), toLowerCase(query.v))
    \/ Includes(toLowerCase(t.theme), toLowerCase(query.v))

\* The text of the search tool's result.
SearchText(v, query) ==
    LET found == SelectSeq(SearchTemplates(v), LAMBDA t : Matches(t, query))
        count == <<"0", "1", "2", "3">>[Len(found) + 1]
        names == [i \in 1..Len(found) |-> found[i].name]
        ids == [i \in 1..Len(found) |-> found[i].id]
    IN  IF v = "part_000"
        THEN <<"Found ", count, " template(s) matching ">> \o query.v
             \o <<"found:", names>>
        ELSE <<"{results:", ids, "}">>

\* The outcome of a try block: a response, or the message of what it threw.
Returned(res) == [threw |-> FALSE, message |-> <<>>, res |-> res, caught |-> FALSE]
Threw(message) ==
    [threw |-> TRUE, message |-> message, res |-> NoResponse, caught |-> FALSE]

\* The try block of the search tool.
SearchTry(v, id, args) ==
    IF ~Truthy(args.query)
    THEN Returned(jsonRpcError(id, InvalidParams, <<"Missing required parameter: query">>))
    ELSE IF ~HasToLowerCase(args.query)
    THEN Threw(NotAFunction("query.toLowerCase"))
    ELSE Returned(jsonRpcResponse(id, SearchText(v, args.query)))

\* The own keys of the template database of part_001's fetch tool, and names
\* every object inherits from Object.prototype.
TemplateIds == {<<"template-1">>, <<"template-2">>, <<"template-3">>}
InheritedKeys == {<<"constructor">>, <<"toString">>, <<"__proto__">>}

\* The try block of the fetch tool: by url in part_000, by id in part_001.
FetchTry(v, id, args) ==
    IF v = "part_000"
    THEN IF ~Truthy(args.url)
         THEN Returned(jsonRpcError(id, InvalidParams, <<"Missing required parameter: url">>))
         ELSE IF ToStringThrows(args.url)
         THEN Threw(CannotConvert)
         ELSE Returned(jsonRpcResponse(id, <<"Fetched details for: ">> \o ToString(args.url)))
    ELSE IF ~Truthy(args.id)
         THEN Returned(jsonRpcError(id, InvalidParams, <<"Missing required parameter: id">>))
         ELSE IF ToStringThrows(args.id)
         THEN Threw(CannotConvert)
         ELSE IF ToString(args.id) \in TemplateIds
         THEN Returned(jsonRpcResponse(id, <<"{id:">> \o ToString(args.id) \o <<"}">>))
         ELSE IF ToString(args.id) \in InheritedKeys
         THEN Returned(jsonRpcResponse(id, <<>>))
         ELSE Returned(jsonRpcError(id, InvalidParams,
                                    <<"Template not found: ">> \o ToString(args.id)))

\* A catch block that lets the exception go on.
Rethrow(id, prefix, t) == t

\* try { ... } catch (error) { console.error(...); return jsonRpcError(-32603,
\* prefix + error.message) } around a tool, for id.
CatchAs(id, prefix, t) ==
    IF t.threw
    THEN [Returned(jsonRpcError(id, InternalError, <<prefix>> \o t.message))
            EXCEPT !.caught = TRUE]
    ELSE t

\* ------------------------------------------------------------- dispatcher

\* const { name: toolName, arguments: toolArgs } = params || {}
toolName(b) == IF b.hasParams THEN b.name ELSE Undefined

\* The fields the tools destructure from toolArgs || {}.
NoArgs ==
    [query |-> Undefined, url |-> Undefined, id |-> Undefined,
     site_name |-> Undefined, theme |-> Undefined, domain |-> Undefined]

toolArgs(b) ==
    IF b.hasParams /\ b.hasArgs
    THEN [query |-> b.query, url |-> b.url, id |-> b.tid,
          site_name |-> b.site_name, theme |-> b.theme, domain |-> b.domain]
    ELSE NoArgs

\* const { site_name, theme, domain } = req.body
restArgs(b) ==
    [NoArgs EXCEPT !.site_name = b.site_name, !.theme = b.theme, !.domain = b.domain]

\* The arguments of the createWebsite pipeline of a request.
SiteArgs(b) == IF b.route = "/mcp" THEN toolArgs(b) ELSE restArgs(b)

\* A notification test that takes only an absent id for one.
IsAbsentId(id) == id = Undefined

\* if (!id && id !== 0): the request is handled as a notification.
IsNotification(id) == ~Truthy(id) /\ id # Zero

\* What the synchronous part of a handler ends in: a response, an exception
\* nobody catches, or the createWebsite pipeline.
\* logged: whether
\* console.error reported an exception on the way.
Respond(res) == [kind |-> "respond", res |-> res, logged |-> FALSE]
Uncaught == [kind |-> "throw", res |-> NoResponse, logged |-> TRUE]
Continue == [kind |-> "continue", res |-> NoResponse, logged |-> FALSE]

FromTry(t) ==
    IF t.threw THEN Uncaught ELSE [Respond(t.res) EXCEPT !.logged = t.caught]

\* A validation that forgets the theme.
MissingSiteName(a) == ~Truthy(a.site_name)

\* if (!site_name || !theme)
MissingSiteArgs(a) == ~Truthy(a.site_name) \/ ~Truthy(a.theme)

\* case 'tools/call'
ToolsCall(v, b) ==
    IF Is(toolName(b), "search")
    THEN FromTry(CatchAs(b.id, "Search failed: ", SearchTry(v, b.id, toolArgs(b))))
    ELSE IF Is(toolName(b), "fetch")
    THEN FromTry(CatchAs(b.id, "Fetch failed: ", FetchTry(v, b.id, toolArgs(b))))
    ELSE IF Is(toolName(b), "createWebsite")
    THEN IF MissingSiteArgs(toolArgs(b))
         THEN Respond(jsonRpcError(b.id, InvalidParams,
                          <<"Missing required parameters: site_name and theme">>))
         ELSE Continue
    ELSE IF ToStringThrows(toolName(b))
    THEN Uncaught
    ELSE Respond(jsonRpcError(b.id, MethodNotFound,
                              <<"Unknown tool: ">> \o ToString(toolName(b))))

\* A switch whose initialized case answers like ping.
SwitchAnsweringInitialized(v, b) ==
    IF Is(b.method, "initialize")
    THEN Respond(jsonRpcResponse(b.id,
                    <<"protocolVersion", "2024-11-05", "capabilities", "serverInfo">>))
    ELSE IF Is(b.method, "initialized")
    THEN Respond(jsonRpcResponse(b.id, <<>>))
    ELSE IF Is(b.method, "tools/list")
    THEN Respond(jsonRpcResponse(b.id, mcpTools))
    ELSE IF Is(b.method, "ping")
    THEN Respond(jsonRpcResponse(b.id, <<"status", "ok">>))
    ELSE IF Is(b.method, "tools/call")
    THEN ToolsCall(v, b)
    ELSE IF ToStringThrows(b.method)
    THEN Uncaught
    ELSE Respond(jsonRpcError(b.id, MethodNotFound,
                              <<"Method not found: ">> \o ToString(b.method)))

\* switch (method)
Switch(v, b) ==
    IF Is(b.method, "initialize")
    THEN Respond(jsonRpcResponse(b.id,
                    <<"protocolVersion", "2024-11-05", "capabilities", "serverInfo">>))
    ELSE IF Is(b.method, "initialized")
    THEN Respond(EmptyOk)
    ELSE IF Is(b.method, "tools/list")
    THEN Respond(jsonRpcResponse(b.id, mcpTools))
    ELSE IF Is(b.method, "ping")
    THEN Respond(jsonRpcResponse(b.id, <<"status", "ok">>))
    ELSE IF Is(b.method, "tools/call")
    THEN ToolsCall(v, b)
    ELSE IF ToStringThrows(b.method)
    THEN Uncaught
    ELSE Respond(jsonRpcError(b.id, MethodNotFound,
                              <<"Method not found: ">> \o ToString(b.method)))

\* A dispatcher without the notification branch.
McpPostWithoutNotifications(v, b) == Switch(v, b)

\* The POST branch of app.all('/mcp') up to its first await.
McpPost(v, b) ==
    IF IsNotification(b.id) THEN Respond(EmptyOk) ELSE Switch(v, b)

\* A REST handler that does not validate its body.
ApiPostWithoutValidation(v, b) ==
    IF ~ImportsServices(v)
    THEN [Respond(RestFailure(<<"Site generation failed">>, NotDefined("generateSite")))
            EXCEPT !.logged = TRUE]
    ELSE Continue

\* app.post('/api/createWebsite') up to its first await.
ApiPost(v, b) ==
    IF MissingSiteArgs(restArgs(b))
    THEN Respond(RestBadRequest)
    ELSE IF ~ImportsServices(v)
    THEN [Respond(RestFailure(<<"Site generation failed">>, NotDefined("generateSite")))
            EXCEPT !.logged = TRUE]
    ELSE Continue

\* ---------------------------------------------------------------- requests

\* A request body.  hasParams and hasArgs say whether params and
\* params.arguments are objects; any other value (absent, a number, a string,
\* an array) has none of the properties the handler destructures.
BlankBody ==
    [route |-> "/mcp", id |-> Undefined, method |-> Undefined,
     hasParams |-> FALSE, name |-> Undefined, hasArgs |-> FALSE,
     query |-> Undefined, url |-> Undefined, tid |-> Undefined,
     site_name |-> Undefined, theme |-> Undefined, domain |-> Undefined]

\* A connection slot with no request on it.  Besides the handler's locals a slot
\* records what an observer of the server sees of its request: calls, the calls
\* and returns of the services and the write of the response, in order; during,
\* the slots whose deploy timer was pending when the request arrived and has not
\* fired since; after, whether an exception had been reported before it arrived.
Idle ==
    [pc |-> "idle", body |-> BlankBody, res |-> NoResponse, files |-> <<>>,
     url |-> <<>>, calls |-> <<>>, during |-> {}, after |-> FALSE]

\* res written: the handler returns.
Written(q, res) ==
    [q EXCEPT !.res = res, !.pc = "done", !.calls = Append(@, "respond")]

\* The async handler's promise rejects: express 4 leaves the rejection to the
\* process (the request is never answered), express 5 passes it to next(err).
Rejected(q) ==
    IF asyncRejection = "forwarded"
    THEN Written(q, DefaultErrorPage)
    ELSE [q EXCEPT !.pc = "hung"]

\* process.on('unhandledRejection', ...) is registered, so the process survives.
HandlesUnhandledRejection == TRUE

\* The process after a handler step that ended in o.
ProcessAfter(o) ==
    /\ alive' = IF o.kind = "throw" /\ asyncRejection = "unhandled"
                THEN alive /\ HandlesUnhandledRejection
                ELSE alive
    /\ errorLogged' = (errorLogged \/ o.logged)

\* The slot after the synchronous outcome o; pc is where the pipeline goes on.
After(q, o, pc) ==
    CASE o.kind = "respond" -> Written(q, o.res)
      [] o.kind = "throw" -> Rejected(q)
      [] OTHER -> [q EXCEPT !.pc = pc]

\* A createWebsite that deploys without generating.
PipelineStartsAtDeploy(v) == "deploy"

\* Where the createWebsite tool goes on after its validation: part_001 first
\* awaits the import of the services, part_000 calls generateSite.
PipelineStart(v) == IF LazyImport(v) THEN "import" ELSE "generate"

\* The catch blocks around the createWebsite pipeline.
McpCatch(id, t) == FromTry(CatchAs(id, "Failed to create website: ", t))
RestCatch(message, t) ==
    IF t.threw
    THEN [Respond(RestFailure(message, t.message)) EXCEPT !.logged = TRUE]
    ELSE Respond(t.res)

\* The text of the createWebsite tool's result.
CreatedText(url, theme, site_name) ==
    <<"Website created successfully!\n\nSite URL: ">> \o url
    \o <<"\nTheme: ">> \o ToString(theme) \o <<"\nName: ">> \o ToString(site_name)

\* ----------------------------------------------------------------- actions

\* A delay that keeps the thread until it has elapsed.
EventLoopHeldByDelay == timers = <<>>

\* Whether the event loop can run a step other than a timer: deployToVercel
\* awaits setTimeout, so a pending delay holds nothing.
EventLoopFree == TRUE

\* A request arrives on a free connection.
Receive(r, b) ==
    /\ EventLoopFree
    /\ alive
    /\ reqs[r].pc = "idle"
    /\ reqs' = [reqs EXCEPT ![r] =
                  [Idle EXCEPT !.pc = "received", !.body = b,
                               !.during = {o \in DOMAIN reqs : reqs[o].pc = "timer"},
                               !.after = errorLogged]]
    /\ UNCHANGED <<variant, asyncRejection, env, alive, errorLogged, timers>>

\* app.all('/mcp'), POST: from the destructuring of req.body to the first await.
McpHandler(r) ==
    LET q == reqs[r]
        o == McpPost(variant, q.body)
    IN  /\ EventLoopFree
        /\ q.pc = "received"
        /\ q.body.route = "/mcp"
        /\ variant \in McpVariants
        /\ reqs' = [reqs EXCEPT ![r] =
                      After(q, o, PipelineStart(variant))]
        /\ ProcessAfter(o)
        /\ UNCHANGED <<variant, asyncRejection, env, timers>>

\* app.post('/api/createWebsite') to its first await.
ApiHandler(r) ==
    LET q == reqs[r]
        o == ApiPost(variant, q.body)
    IN  /\ EventLoopFree
        /\ q.pc = "received"
        /\ q.body.route = "/api/createWebsite"
        /\ reqs' = [reqs EXCEPT ![r] = After(q, o, "generate")]
        /\ ProcessAfter(o)
        /\ UNCHANGED <<variant, asyncRejection, env, timers>>

\* The catch-all of a server that registers no /mcp route.
CatchAll(r) ==
    LET q == reqs[r]
    IN  /\ EventLoopFree
        /\ q.pc = "received"
        /\ q.body.route = "/mcp"
        /\ variant \notin McpVariants
        /\ reqs' = [reqs EXCEPT ![r] = Written(q, NotFound)]
        /\ UNCHANGED <<variant, asyncRejection, env, alive, errorLogged, timers>>

\* await import('./services.js') resolves.
ImportServices(r) ==
    /\ EventLoopFree
    /\ reqs[r].pc = "import"
    /\ reqs' = [reqs EXCEPT ![r].pc = "generate"]
    /\ UNCHANGED <<variant, asyncRejection, env, alive, errorLogged, timers>>

\* files = await generateSite({ site_name, theme })
CallGenerateSite(r) ==
    LET q == reqs[r]
        a == SiteArgs(q.body)
        called == [q EXCEPT !.calls = Append(@, "generateSite")]
        o == IF q.body.route = "/mcp"
             THEN McpCatch(q.body.id, Threw(CannotConvert))
             ELSE RestCatch(<<"Site generation failed">>, Threw(CannotConvert))
    IN  /\ EventLoopFree
        /\ q.pc = "generate"
        /\ IF generateSiteThrows(a.site_name, a.theme)
           THEN /\ reqs' = [reqs EXCEPT ![r] = After(called, o, "generate")]
                /\ ProcessAfter(o)
           ELSE /\ reqs' = [reqs EXCEPT ![r] =
                              [called EXCEPT !.files = generateSite(a.site_name, a.theme),
                                             !.calls = Append(@, "generateSite.return"),
                                             !.pc = "deploy"]]
                /\ ProcessAfter(Continue)
        /\ UNCHANGED <<variant, asyncRejection, env, timers>>

\* deployToVercel({ files, name, domain, token }) runs to its await of the timer.
CallDeploy(r) ==
    /\ EventLoopFree
    /\ reqs[r].pc = "deploy"
    /\ reqs' = [reqs EXCEPT ![r].pc = "timer",
                            ![r].calls = Append(@, "deployToVercel")]
    /\ timers' = Append(timers, r)
    /\ UNCHANGED <<variant, asyncRejection, env, alive, errorLogged>>

\* The oldest 1000 ms timer fires (equal delays fire in the order they were set): deployToVercel builds mockUrl and returns, or throws.
TimerFires(r) ==
    LET q == reqs[r]
        a == SiteArgs(q.body)
        o == IF q.body.route = "/mcp"
             THEN McpCatch(q.body.id, Threw(NotAFunction("name.toLowerCase")))
             ELSE RestCatch(<<"Vercel deployment failed">>,
                            Threw(NotAFunction("name.toLowerCase")))
        fired == [x \in DOMAIN reqs |-> [reqs[x] EXCEPT !.during = @ \ {r}]]
    IN  /\ q.pc = "timer"
        /\ timers # <<>> /\ Head(timers) = r
        /\ timers' = Tail(timers)
        /\ IF deployToVercelThrows(q.files, a.site_name, a.domain, env)
           THEN /\ reqs' = [fired EXCEPT ![r] = After(q, o, "timer")]
                /\ ProcessAfter(o)
           ELSE /\ reqs' = [fired EXCEPT ![r] =
                              [q EXCEPT !.url = deployToVercel(q.files, a.site_name,
                                                               a.domain, env),
                                        !.calls = Append(@, "deployToVercel.return"),
                                        !.pc = "resume"]]
                /\ ProcessAfter(Continue)
        /\ UNCHANGED <<variant, asyncRejection, env>>

\* The handler resumes after await deployToVercel and writes its response.
Resume(r) ==
    LET q == reqs[r]
        a == SiteArgs(q.body)
        o == IF q.body.route = "/mcp"
             THEN McpCatch(q.body.id,
                           IF ToStringThrows(a.theme) \/ ToStringThrows(a.site_name)
                           THEN Threw(CannotConvert)
                           ELSE Returned(jsonRpcResponse(q.body.id,
                                            CreatedText(q.url, a.theme, a.site_name))))
             ELSE Respond(RestSuccess(q.url))
    IN  /\ EventLoopFree
        /\ q.pc = "resume"
        /\ reqs' = [reqs EXCEPT ![r] = After(q, o, "resume")]
        /\ ProcessAfter(o)
        /\ UNCHANGED <<variant, asyncRejection, env, timers>>

\* The connection closes: after the response, or when the client gives up on a
\* request that is never answered.
Close(r) ==
    /\ EventLoopFree
    /\ reqs[r].pc \in {"done", "hung"}
    /\ reqs' = [reqs EXCEPT ![r] = Idle]
    /\ UNCHANGED <<variant, asyncRejection, env, alive, errorLogged, timers>>

\* ------------------------------------------------------------------ inputs

MySite == Str(<<"M", "y", " ", "S", "i", "t", "e">>)
Dark == Str(<<"dark">>)
Light == Str(<<"light">>)
Word(w) == Str(<<w>>)

\* The id values of the requests: absent, the falsy JSON values, and truthy ones.
Ids == {Undefined, Null, False, EmptyStr, Zero, Seven, Word("abc"), True}

\* The method values that are not tools/call: absent, the routed names, an
\* unknown name, and values that are no string.
Methods ==
    {Undefined, Word("initialize"), Word("initialized"), Word("tools/list"),
     Word("ping"), Word("resources/list"), Seven, PlainObj, NoStringObj}

SiteNames == {Undefined, EmptyStr, MySite, Seven, NoStringObj}
Themes == {Undefined, EmptyStr, Dark, Light, NoStringObj}
Domains == {Undefined, Word("example.com")}
Queries == {Undefined, EmptyStr, Dark, Word("Blog"), Word("zzz"), Seven, True, NoStringObj}
FetchKeys ==
    {Undefined, EmptyStr, Word("template-1"), Word("nope"), Word("constructor"),
     Seven, NoStringObj}

Call == [BlankBody EXCEPT !.method = Word("tools/call")]
WithArgs(tool) == [Call EXCEPT !.hasParams = TRUE, !.hasArgs = TRUE, !.name = Word(tool)]

\* The params of the tools/call requests.
ToolCalls ==
    {Call}
    \cup {[Call EXCEPT !.hasParams = TRUE, !.name = n] :
            n \in {Undefined, Word("doesNotExist"), Seven, NoStringObj,
                   Word("search"), Word("fetch"), Word("createWebsite")}}
    \cup {[WithArgs("search") EXCEPT !.query = q] : q \in Queries}
    \cup {[WithArgs("fetch") EXCEPT !.url = k] : k \in FetchKeys}
    \cup {[WithArgs("fetch") EXCEPT !.tid = k] : k \in FetchKeys}
    \cup {[WithArgs("createWebsite") EXCEPT !.site_name = n, !.theme = t, !.domain = d] :
            n \in SiteNames, t \in Themes, d \in Domains}

McpBodies ==
    {[BlankBody EXCEPT !.id = i, !.method = m] : i \in Ids, m \in Methods}
    \cup {[c EXCEPT !.id = i] : c \in ToolCalls, i \in Ids}

RestBodies ==
    {[BlankBody EXCEPT !.route = "/api/createWebsite",
                       !.site_name = n, !.theme = t, !.domain = d] :
        n \in SiteNames, t \in Themes, d \in Domains}

AllBodies == McpBodies \cup RestBodies

\* The requests of the concurrent specification.
ConcBodies ==
    {[BlankBody EXCEPT !.id = Seven, !.method = Word("ping")],
     [WithArgs("createWebsite") EXCEPT !.id = Seven, !.site_name = MySite, !.theme = Dark],
     [WithArgs("search") EXCEPT !.id = Seven, !.query = Seven],
     [BlankBody EXCEPT !.id = Seven, !.method = NoStringObj],
     [BlankBody EXCEPT !.route = "/api/createWebsite",
                       !.site_name = MySite, !.theme = Light]}

\* The site names of the deploy specification: every text of at most MaxLen
\* characters over an upper-case letter, a lower-case letter and two kinds of
\* whitespace.
Alphabet == {"A", "b", " ", "\t"}
Texts == UNION {[1..n -> Alphabet] : n \in 0..MaxLen}

DeployBodies ==
    {[WithArgs("createWebsite") EXCEPT !.id = Seven, !.site_name = Str(n),
                                       !.theme = Dark, !.domain = d] :
        n \in Texts, d \in Domains}
    \cup {[BlankBody EXCEPT !.route = "/api/createWebsite", !.site_name = Str(n),
                            !.theme = Light, !.domain = d] :
        n \in Texts, d \in Domains}

\* ---------------------------------------------------------- specifications

Tokens == {Undefined, Word("token")}

InitWith(slots, tokens) ==
    /\ variant \in Variants
    /\ asyncRejection \in {"unhandled", "forwarded"}
    /\ env \in tokens
    /\ alive = TRUE
    /\ errorLogged = FALSE
    /\ timers = <<>>
    /\ reqs = [r \in slots |-> Idle]

\* A step of a request already received.
Handle ==
    \/ \E r \in DOMAIN reqs : McpHandler(r)
    \/ \E r \in DOMAIN reqs : ApiHandler(r)
    \/ \E r \in DOMAIN reqs : CatchAll(r)
    \/ \E r \in DOMAIN reqs : ImportServices(r)
    \/ \E r \in DOMAIN reqs : CallGenerateSite(r)
    \/ \E r \in DOMAIN reqs : CallDeploy(r)
    \/ \E r \in DOMAIN reqs : TimerFires(r)
    \/ \E r \in DOMAIN reqs : Resume(r)
    \/ \E r \in DOMAIN reqs : Close(r)

\* One connection at a time, every request body.
Init == InitWith({1}, Tokens)
Next ==
    \/ \E r \in DOMAIN reqs, b \in AllBodies : Receive(r, b)
    \/ Handle
Spec == Init /\ [][Next]_vars

\* MaxReq connections at once, on a server that has its token.
InitConc == InitWith(1..MaxReq, {Word("token")})
NextConc ==
    \/ \E r \in DOMAIN reqs, b \in ConcBodies : Receive(r, b)
    \/ Handle
SpecConc == InitConc /\ [][NextConc]_vars

\* createWebsite for every site name of at most MaxLen characters.
NextDeploy ==
    \/ \E r \in DOMAIN reqs, b \in DeployBodies : Receive(r, b)
    \/ Handle
SpecDeploy == Init /\ [][NextDeploy]_vars

\* ------------------------------------------------------------------ claims

Slots == DOMAIN reqs

\* A request that reached the POST /mcp handler of a server that has one.
IsMcp(r) ==
    /\ variant \in McpVariants
    /\ reqs[r].pc # "idle"
    /\ reqs[r].body.route = "/mcp"

\* A request to POST /api/createWebsite.
IsRest(r) == reqs[r].pc # "idle" /\ reqs[r].body.route = "/api/createWebsite"

\* The request carries an id: a string or a number (0 included), or any other
\* value the handler does not take for absent.
HasId(b) == Truthy(b.id) \/ b.id = Zero

IsJsonRpc(res) == res.kind \in {"result", "error"}
IsEmptyOk(res) == res.status = 200 /\ res.kind = "empty" /\ res.text = <<>>

RoutedMethods == {"initialize", "initialized", "tools/list", "ping", "tools/call"}
ToolNames == {"search", "fetch", "createWebsite"}
IsOneOf(x, words) == \E w \in words : Is(x, w)

IsToolCall(b, tool) ==
    Is(b.method, "tools/call") /\ b.hasParams /\ Is(b.name, tool)

Invoked(r, service) == service \in Range(reqs[r].calls)

\* C1: every JSON-RPC response (result or error) to POST /mcp carries the id of
\* its request whenever that id is a string or a number, 0 included, and a null
\* id only when the request had no id.
C1_ResponseIdIsRequestId ==
    \A r \in Slots :
        (IsMcp(r) /\ reqs[r].pc = "done" /\ IsJsonRpc(reqs[r].res)) =>
            /\ reqs[r].body.id.k \in {"string", "number"} =>
                   reqs[r].res.id = reqs[r].body.id
            /\ reqs[r].res.id = Null => reqs[r].body.id = Undefined

\* C2: a POST /mcp request without an id field is answered with HTTP 200 and an
\* empty body, never with a JSON-RPC result or error, whatever its method and
\* params; no step of the createWebsite pipeline runs for it.
C2_NoIdGetsEmptyOk ==
    \A r \in Slots :
        (IsMcp(r) /\ reqs[r].body.id = Undefined) =>
            \/ reqs[r].pc = "received"
            \/ /\ reqs[r].pc = "done"
               /\ IsEmptyOk(reqs[r].res)
               /\ reqs[r].calls = <<"respond">>

\* A tools/call createWebsite request without an id has been answered.
C2_Witness ==
    \E r \in Slots :
        /\ IsMcp(r)
        /\ reqs[r].body.id = Undefined
        /\ IsToolCall(reqs[r].body, "createWebsite")
        /\ Truthy(reqs[r].body.site_name)
        /\ Truthy(reqs[r].body.theme)
        /\ reqs[r].pc = "done"

\* C3: a POST /mcp request with id 0 and a method other than initialized is
\* answered with a full JSON-RPC response (an id and a result or an error), not
\* with an empty body: once handled it is in the createWebsite pipeline or has
\* its JSON-RPC response.
C3_IdZeroGetsJsonRpc ==
    \A r \in Slots :
        (IsMcp(r) /\ reqs[r].body.id = Zero /\ ~Is(reqs[r].body.method, "initialized")) =>
            /\ reqs[r].pc # "hung"
            /\ reqs[r].pc = "done" =>
                   /\ IsJsonRpc(reqs[r].res)
                   /\ reqs[r].res.id # Undefined

\* The tool of a tools/call request throws: search on a query that is no string,
\* fetch on a key that cannot be converted to a string, createWebsite on a
\* site_name that is no string or a theme that cannot be converted.
ToolThrows(v, b) ==
    \/ IsToolCall(b, "search") /\ Truthy(b.query) /\ b.query.k # "string"
    \/ IsToolCall(b, "fetch")
         /\ ToStringThrows(IF v = "part_000" THEN b.url ELSE b.tid)
    \/ IsToolCall(b, "createWebsite")
         /\ Truthy(b.site_name) /\ Truthy(b.theme)
         /\ (b.site_name.k # "string" \/ ToStringThrows(b.theme))

\* C4: a tools/call request with an id for search, fetch or createWebsite is
\* never left unanswered and never answered by the framework's error page; when
\* its tool throws it is answered with error -32603; the process stays up.
C4_ToolExceptionsBecomeInternalError ==
    /\ alive
    /\ \A r \in Slots :
         (/\ IsMcp(r)
          /\ HasId(reqs[r].body)
          /\ Is(reqs[r].body.method, "tools/call")
          /\ IsOneOf(toolName(reqs[r].body), ToolNames)) =>
             /\ reqs[r].pc # "hung"
             /\ reqs[r].res.kind # "html"
             /\ (reqs[r].pc = "done" /\ ToolThrows(variant, reqs[r].body)) =>
                    /\ reqs[r].res.kind = "error"
                    /\ reqs[r].res.code = InternalError

\* A request whose tool throws, received after an earlier exception had been
\* reported, has its -32603 answer.
C4_Witness ==
    \E r \in Slots :
        /\ IsMcp(r)
        /\ HasId(reqs[r].body)
        /\ ToolThrows(variant, reqs[r].body)
        /\ reqs[r].after
        /\ reqs[r].pc = "done"
        /\ reqs[r].res.code = InternalError

\* The url the deploy stub is specified to return for a name: the name in lower
\* case, each maximal run of whitespace replaced by one hyphen, between https://
\* and .vercel.app.  The characters kept are those that do not follow a
\* whitespace character while being one.
ExpectedUrl(name) ==
    LET idx == [i \in 1..Len(name) |-> i]
        kept == SelectSeq(idx, LAMBDA i : ~(IsSpace(name[i]) /\ i > 1 /\ IsSpace(name[i - 1])))
    IN  <<"https://">>
        \o [j \in 1..Len(kept) |->
              IF IsSpace(name[kept[j]]) THEN "-" ELSE LowerAtom(name[kept[j]])]
        \o <<".vercel.app">>

IsPrefix(s, t) == Len(s) <= Len(t) /\ \A i \in 1..Len(s) : s[i] = t[i]

\* The calls of a createWebsite that succeeds, in order.
Pipeline ==
    <<"generateSite", "generateSite.return", "deployToVercel",
      "deployToVercel.return", "respond">>

\* site_name and theme are given as the tool's schema has them: non-empty strings.
GoodSite(b) ==
    /\ b.site_name.k = "string" /\ Truthy(b.site_name)
    /\ b.theme.k = "string" /\ Truthy(b.theme)

\* C5: for a tools/call createWebsite request with an id and with site_name and
\* theme given, the generator is called first, the deploy stub only after the
\* generator returned, the response is written only after the deploy returned,
\* and the result text contains the url the deploy returned for site_name, the
\* theme and the name ("My Site" with "dark": https://my-site.vercel.app, dark).
C5_CreateWebsiteGeneratesDeploysAnswers ==
    \A r \in Slots :
        (/\ IsMcp(r)
         /\ HasId(reqs[r].body)
         /\ IsToolCall(reqs[r].body, "createWebsite")
         /\ GoodSite(reqs[r].body)) =>
            /\ IsPrefix(reqs[r].calls, Pipeline)
            /\ reqs[r].pc # "hung"
            /\ reqs[r].pc = "done" =>
                 /\ reqs[r].calls = Pipeline
                 /\ reqs[r].res.kind = "result"
                 /\ reqs[r].url = ExpectedUrl(reqs[r].body.site_name.v)
                 /\ Includes(reqs[r].res.text, reqs[r].url)
                 /\ Includes(reqs[r].res.text, reqs[r].body.theme.v)
                 /\ Includes(reqs[r].res.text, reqs[r].body.site_name.v)
                 /\ (reqs[r].body.site_name = MySite /\ reqs[r].body.theme = Dark) =>
                      Includes(reqs[r].res.text,
                               <<"https://", "m", "y", "-", "s", "i", "t", "e", ".vercel.app">>)

\* createWebsite for "My Site", "dark" has been answered.
C5_Witness ==
    \E r \in Slots :
        /\ IsMcp(r)
        /\ HasId(reqs[r].body)
        /\ IsToolCall(reqs[r].body, "createWebsite")
        /\ reqs[r].body.site_name = MySite
        /\ reqs[r].body.theme = Dark
        /\ reqs[r].pc = "done"
        /\ reqs[r].res.kind = "result"

\* C6: in every server file, POST /api/createWebsite with a non-empty string
\* site_name and a theme calls the generator, then the deploy stub, and answers
\* 200 {success: true, siteUrl} with the deploy's url for site_name; a 500 is
\* answered only when the generator or the deploy stub was called and threw.
C6_RestCreatesSite ==
    \A r \in Slots :
        (/\ IsRest(r)
         /\ reqs[r].body.site_name.k = "string"
         /\ Truthy(reqs[r].body.site_name)
         /\ Truthy(reqs[r].body.theme)
         /\ reqs[r].pc = "done") =>
            \/ /\ reqs[r].res.status = 200
               /\ reqs[r].res.kind = "rest-ok"
               /\ reqs[r].res.text = ExpectedUrl(reqs[r].body.site_name.v)
               /\ reqs[r].calls = Pipeline
            \/ /\ reqs[r].res.status = 500
               /\ reqs[r].res.kind = "rest-fail"
               /\ \/ reqs[r].calls = <<"generateSite", "respond">>
                  \/ reqs[r].calls = <<"generateSite", "generateSite.return",
                                       "deployToVercel", "respond">>

\* C7: for a POST /mcp request with an id, a method outside the routed ones (an
\* absent one too) and a tools/call with a name outside search, fetch,
\* createWebsite (absent name or params too) are answered with error -32601, and
\* neither the generator nor the deploy stub is called.
C7_UnknownGetsMethodNotFound ==
    \A r \in Slots :
        (/\ IsMcp(r)
         /\ HasId(reqs[r].body)
         /\ reqs[r].pc # "received"
         /\ \/ ~IsOneOf(reqs[r].body.method, RoutedMethods)
            \/ /\ Is(reqs[r].body.method, "tools/call")
               /\ ~IsOneOf(toolName(reqs[r].body), ToolNames)) =>
            /\ reqs[r].pc = "done"
            /\ reqs[r].res.kind = "error"
            /\ reqs[r].res.code = MethodNotFound
            /\ reqs[r].calls = <<"respond">>

\* A required argument of the called tool is absent.
MissingArgument(v, b) ==
    \/ IsToolCall(b, "search") /\ b.query = Undefined
    \/ IsToolCall(b, "fetch") /\ (IF v = "part_000" THEN b.url ELSE b.tid) = Undefined
    \/ IsToolCall(b, "createWebsite")
         /\ (b.site_name = Undefined \/ b.theme = Undefined)

\* C8: a tools/call request with an id that lacks a required argument (search:
\* query; fetch: url in part_000, id in part_001; createWebsite: site_name or
\* theme) is answered with error -32602, and no step of the createWebsite
\* pipeline runs for it.
C8_MissingArgumentIsInvalidParams ==
    \A r \in Slots :
        (IsMcp(r) /\ HasId(reqs[r].body) /\ MissingArgument(variant, reqs[r].body)) =>
            \/ reqs[r].pc = "received"
            \/ /\ reqs[r].pc = "done"
               /\ reqs[r].res.kind = "error"
               /\ reqs[r].res.code = InvalidParams
               /\ reqs[r].calls = <<"respond">>

\* createWebsite with a site_name and no theme has been answered.
C8_Witness ==
    \E r \in Slots :
        /\ IsMcp(r)
        /\ HasId(reqs[r].body)
        /\ IsToolCall(reqs[r].body, "createWebsite")
        /\ reqs[r].body.site_name = MySite
        /\ reqs[r].body.theme = Undefined
        /\ reqs[r].pc = "done"

\* C9: while a createWebsite request waits in the deploy stub's delay the other
\* connections are served: a free connection can take a request and a received
\* request can be handled at once; and what a request is answered depends on its
\* body alone: two answered requests with the same body have the same response.
C9_DelayBlocksNobody ==
    /\ \A r \in Slots :
         /\ reqs[r].pc = "idle" => \E b \in ConcBodies : ENABLED Receive(r, b)
         /\ reqs[r].pc = "received" =>
                ENABLED (McpHandler(r) \/ ApiHandler(r) \/ CatchAll(r))
    /\ \A r1, r2 \in Slots :
         (/\ reqs[r1].pc = "done"
          /\ reqs[r2].pc = "done"
          /\ reqs[r1].body = reqs[r2].body) => reqs[r1].res = reqs[r2].res

\* A request that arrived while another one's deploy timer was pending has been
\* answered, and that timer is still pending.
C9_Witness ==
    \E r1, r2 \in Slots :
        /\ reqs[r1].pc = "timer"
        /\ r1 \in reqs[r2].during
        /\ reqs[r2].pc = "done"
        /\ IsJsonRpc(reqs[r2].res)

\* C10: the url the deploy stub returns is ExpectedUrl of the site name,
\* whatever the domain, the token and the files are.
C10_DeployUrlIsFunctionOfName ==
    \A r \in Slots :
        (\/ reqs[r].pc = "resume"
         \/ reqs[r].pc = "done" /\ Invoked(r, "deployToVercel.return")) =>
            reqs[r].url = ExpectedUrl(SiteArgs(reqs[r].body).site_name.v)

\* The deploy stub has returned for a name with a run of two whitespace
\* characters and an upper-case letter, called with a domain and a token.
C10_Witness ==
    \E r \in Slots :
        /\ reqs[r].pc = "resume"
        /\ SiteArgs(reqs[r].body).site_name.v = <<"A", " ", "\t">>
        /\ Truthy(SiteArgs(reqs[r].body).domain)
        /\ Truthy(env)
        /\ reqs[r].url = <<"https://", "a", "-", ".vercel.app">>

\* C11: a POST /mcp request with method initialized is answered with HTTP 200
\* and an empty body, never with a JSON-RPC result or error, whether or not it
\* carries an id; nothing else runs for it.
C11_InitializedGetsEmptyOk ==
    \A r \in Slots :
        (IsMcp(r) /\ Is(reqs[r].body.method, "initialized")) =>
            \/ reqs[r].pc = "received"
            \/ /\ reqs[r].pc = "done"
               /\ IsEmptyOk(reqs[r].res)
               /\ ~IsJsonRpc(reqs[r].res)
               /\ reqs[r].calls = <<"respond">>

\* An initialized request that carries a truthy id has been answered.
C11_Witness ==
    \E r \in Slots :
        /\ IsMcp(r)
        /\ Is(reqs[r].body.method, "initialized")
        /\ reqs[r].body.id = Seven
        /\ reqs[r].pc = "done"

\* The body of a REST request has no site_name or has no theme.
LacksSiteArgs(b) == b.site_name = Undefined \/ b.theme = Undefined

\* C12: a POST /api/createWebsite whose body has no site_name or no theme (the
\* body {} included) is answered with HTTP 400 and success false, on every
\* server, and neither generateSite nor deployToVercel is called for it.
C12_RestMissingFieldIsBadRequest ==
    \A r \in Slots :
        (IsRest(r) /\ LacksSiteArgs(reqs[r].body)) =>
            \/ reqs[r].pc = "received"
            \/ /\ reqs[r].pc = "done"
               /\ reqs[r].res.status = 400
               /\ reqs[r].res.kind = "rest-fail"
               /\ ~Invoked(r, "generateSite")
               /\ ~Invoked(r, "deployToVercel")
               /\ reqs[r].calls = <<"respond">>

\* The body {} has been answered by the REST handler.
C12_Witness ==
    \E r \in Slots :
        /\ IsRest(r)
        /\ reqs[r].body = [BlankBody EXCEPT !.route = "/api/createWebsite"]
        /\ reqs[r].pc = "done"

\* The id values that are present, falsy and not 0.
FalsyIds == {Null, False, EmptyStr}

\* C13: a POST /mcp request whose id is null, false or "" is answered with HTTP
\* 200 and an empty body and no method handler runs; a tools/call createWebsite
\* with such an id, or with no id, calls neither generateSite nor deployToVercel
\* and gets no result and no error.
C13_FalsyIdIsNotification ==
    \A r \in Slots :
        (/\ IsMcp(r)
         /\ \/ reqs[r].body.id \in FalsyIds
            \/ reqs[r].body.id = Undefined /\ IsToolCall(reqs[r].body, "createWebsite")) =>
            \/ reqs[r].pc = "received"
            \/ /\ reqs[r].pc = "done"
               /\ IsEmptyOk(reqs[r].res)
               /\ ~Invoked(r, "generateSite")
               /\ ~Invoked(r, "deployToVercel")
               /\ reqs[r].calls = <<"respond">>

\* A createWebsite call with id null and valid arguments has been answered.
C13_Witness ==
    \E r \in Slots :
        /\ IsMcp(r)
        /\ reqs[r].body.id = Null
        /\ IsToolCall(reqs[r].body, "createWebsite")
        /\ reqs[r].body.site_name = MySite
        /\ reqs[r].body.theme = Dark
        /\ reqs[r].pc = "done"

\* How many responses were written for a request.
Responses(calls) == Cardinality({i \in DOMAIN calls : calls[i] = "respond"})

\* The responses the handlers write: empty 200, JSON-RPC result or error, REST
\* 200, 400 or 500.
IsHandlerResponse(res) ==
    \/ IsEmptyOk(res)
    \/ IsJsonRpc(res) /\ res.status = 200
    \/ res.kind = "rest-ok" /\ res.status = 200
    \/ res.kind = "rest-fail" /\ res.status \in {400, 500}

\* C14: a request that reached the POST /mcp handler or the POST
\* /api/createWebsite handler is answered exactly once: it never has two
\* responses, it is never left without one when its handler has ended, and the
\* response it gets is one the handlers write.
C14_AnsweredExactlyOnce ==
    \A r \in Slots :
        (IsMcp(r) \/ IsRest(r)) =>
            /\ Responses(reqs[r].calls) <= 1
            /\ reqs[r].pc # "hung"
            /\ reqs[r].pc = "done" =>
                   /\ Responses(reqs[r].calls) = 1
                   /\ IsHandlerResponse(reqs[r].res)

====
